---- MODULE Spec2Model ----
(***************************************************************************)
(* A model of the FileSystems and Files facades of filesystem.js.          *)
(*                                                                         *)
(*   - FileSystems.getFileSystem / newFileSystem over the provider         *)
(*     registry (SpecRegistry);                                            *)
(*   - Files.createDirectories, the existence predicates and the attribute *)
(*     getters over a backend tree (SpecFiles);                            *)
(*   - Files.copyFromStream / copyToStream over web streams (SpecStreams); *)
(*   - Path.toAbsolutePath and its use by createDirectories (SpecPaths).   *)
(*                                                                         *)
(* A call's outcome is a record: kind "return" with a value, or kind       *)
(* "throw" with the exception's class name in exc.                         *)
(***************************************************************************)
EXTENDS Integers, Sequences, FiniteSets, TLC

VARIABLES
    installedProviders, \* FileSystemProviders.getInstalledProviders(), in order
    regRet,             \* the last FileSystems call and its outcome
    tree,               \* the backend: what is at each path
    denyAt,             \* the backend's permissions: the subtree the caller may not touch
    otherActs,          \* entries created so far by the concurrent actor
    cd,                 \* the Files.createDirectories call in progress
    hist,               \* the Files.createDirectories calls that ended, in order
    ret,                \* the last attribute getter or existence predicate call
    entry,              \* the backend entry at the path given to a stream copy
    entryDenied,        \* whether the backend denies deleting and opening it
    cp,                 \* the copyFromStream / copyToStream call in progress
    cpRet,              \* the stream copy that ended last, until the next begins
    pathRet             \* the last toAbsolutePath call and its outcome

regVars == <<installedProviders, regRet>>

backendVars == <<tree, denyAt, otherActs>>

dirVars == <<cd, hist>>

copyVars == <<entry, entryDenied, cp, cpRet>>

vars == <<installedProviders, regRet, tree, denyAt, otherActs, cd, hist, ret,
          entry, entryDenied, cp, cpRet, pathRet>>

(***************************************************************************)
(* Strings are sequences of characters, so that toLowerCase is computed.   *)
(***************************************************************************)
LowerChar(c) ==
    CASE c = "A" -> "a"
      [] c = "B" -> "b"
      [] OTHER -> c

ToLowerCase(s) == [i \in DOMAIN s |-> LowerChar(s[i])]

\* t occurs in s as a contiguous run of characters
Contains(s, t) ==
    \E i \in 0..(Len(s) - Len(t)) : SubSeq(s, i + 1, i + Len(t)) = t

\* The scheme strings a URL or a provider may carry.
SchemeStrings == {<<"a">>, <<"A">>, <<"b">>, <<"a", "B">>}

\* What provider.newFileSystemFromUrl(uri, env) does for a provider.
NewFsOutcomes == {"ok", "UnsupportedOperationException", "IOException"}

Providers == [scheme : SchemeStrings, newFs : NewFsOutcomes]

MaxProviders == 3

NoCall == [op |-> "none", url |-> <<>>, kind |-> "none", value |-> 0,
           exc |-> "", msg |-> <<>>, consulted |-> <<>>]

Returned(i, consulted) ==
    [kind |-> "return", value |-> i, exc |-> "", msg |-> <<>>,
     consulted |-> consulted]

Thrown(exc, msg, consulted) ==
    [kind |-> "throw", value |-> 0, exc |-> exc, msg |-> msg,
     consulted |-> consulted]

\* `Provider "${scheme}" not found`
NotFoundMessage(scheme) ==
    <<"P", "r", "o", "v", "i", "d", "e", "r", " ", "\"">> \o scheme
        \o <<"\"", " ", "n", "o", "t", " ", "f", "o", "u", "n", "d">>

(***************************************************************************)
(* FileSystems.getFileSystem(url): the value returned is the index of the  *)
(* provider whose getFileSystem(url) was returned; consulted lists the     *)
(* providers whose getFileSystem was called.                               *)
(***************************************************************************)
RECURSIVE GetScan(_, _, _)
GetScan(provs, scheme, i) ==
    IF i > Len(provs)
    THEN Thrown("ProviderNotFoundException", NotFoundMessage(scheme), <<>>)
    ELSE IF provs[i].scheme = scheme
         THEN Returned(i, <<i>>)
         ELSE GetScan(provs, scheme, i + 1)

GetFileSystem(provs, protocol) ==
    LET scheme == ToLowerCase(protocol) IN GetScan(provs, scheme, 1)

(***************************************************************************)
(* FileSystems.newFileSystem(uri, env): consulted lists the providers      *)
(* whose newFileSystemFromUrl was called, in call order.                   *)
(***************************************************************************)
\* NewScan with UnsupportedOperation propagated like any other failure
RECURSIVE NewScanNoFallThrough(_, _, _, _)
NewScanNoFallThrough(provs, scheme, i, consulted) ==
    IF i > Len(provs)
    THEN Thrown("ProviderNotFoundException", NotFoundMessage(scheme), consulted)
    ELSE IF scheme = provs[i].scheme
         THEN LET asked == Append(consulted, i) IN
              IF provs[i].newFs = "ok"
              THEN Returned(i, asked)
              ELSE Thrown(provs[i].newFs, <<>>, asked)
         ELSE NewScanNoFallThrough(provs, scheme, i + 1, consulted)

RECURSIVE NewScan(_, _, _, _)
NewScan(provs, scheme, i, consulted) ==
    IF i > Len(provs)
    THEN Thrown("ProviderNotFoundException", NotFoundMessage(scheme), consulted)
    ELSE IF scheme = provs[i].scheme
         THEN LET asked == Append(consulted, i) IN
              IF provs[i].newFs = "ok"
              THEN Returned(i, asked)
              ELSE IF provs[i].newFs = "UnsupportedOperationException"
                   THEN NewScan(provs, scheme, i + 1, asked)
                   ELSE Thrown(provs[i].newFs, <<>>, asked)
         ELSE NewScan(provs, scheme, i + 1, consulted)

NewFileSystem(provs, protocol) ==
    LET scheme == ToLowerCase(protocol) IN NewScan(provs, scheme, 1, <<>>)

(***************************************************************************)
(* The backend behind the provider SPI: a tree of entries and the          *)
(* permission failures it raises.  Paths are absolute: the sequence of     *)
(* their names, <<>> being the root.                                       *)
(***************************************************************************)
MaxDepth == 2

Names == {"a"}

RECURSIVE PathsOfLen(_)
PathsOfLen(n) ==
    IF n = 0 THEN {<<>>}
    ELSE {Append(q, x) : q \in PathsOfLen(n - 1), x \in Names}

Paths == UNION {PathsOfLen(n) : n \in 0..MaxDepth}

\* no path: the null of getParent(), and "nothing is denied"
NoPath == <<"?">>

Kinds == {"absent", "dir", "file", "linkdir", "linkbad"}

\* path.getParent()
GetParent(p) == IF Len(p) = 0 THEN NoPath ELSE SubSeq(p, 1, Len(p) - 1)

IsPrefix(q, p) == Len(q) <= Len(p) /\ SubSeq(p, 1, Len(q)) = q

\* an entry can hold children: a directory, or a link to one
DirLike(k) == k \in {"dir", "linkdir"}

Accessible(p) == ~IsPrefix(denyAt, p)

Return(v) == [kind |-> "return", value |-> v, exc |-> ""]

Throw(e) == [kind |-> "throw", value |-> FALSE, exc |-> e]

\* the attributes of an entry of kind k
Attributes(k) ==
    [isDirectory |-> k = "dir",
     isRegularFile |-> k = "file",
     isSymbolicLink |-> k \in {"linkdir", "linkbad"},
     size |-> IF k = "file" THEN 1 ELSE 0]

LinkOptionValues == {"NOFOLLOW_LINKS", "null"}

MaxOptions == 1

OptionArrays == UNION {[1..n -> LinkOptionValues] : n \in 0..MaxOptions}

HasOption(options, o) == \E i \in DOMAIN options : options[i] = o

\* provider.checkAccess(path): follows links
ProviderCheckAccess(t, p) ==
    IF ~Accessible(p) THEN Throw("SecurityException")
    ELSE IF t[p] \in {"absent", "linkbad"} THEN Throw("NoSuchFileException")
    ELSE Return(TRUE)

\* provider.readAttributesWithType(path, type, options)
ProviderReadAttributes(t, p, options) ==
    IF HasOption(options, "null") THEN Throw("NullPointerException")
    ELSE IF ~Accessible(p) THEN Throw("SecurityException")
    ELSE IF t[p] = "absent" THEN Throw("NoSuchFileException")
    ELSE IF HasOption(options, "NOFOLLOW_LINKS") THEN Return(Attributes(t[p]))
    ELSE IF t[p] = "linkbad" THEN Throw("NoSuchFileException")
    ELSE IF t[p] = "linkdir" THEN Return(Attributes("dir"))
    ELSE Return(Attributes(t[p]))

\* provider.createDirectory(dir, attrs): "ok" when the directory is made
ProviderCreateDirectory(t, p) ==
    IF ~Accessible(p) THEN "SecurityException"
    ELSE IF t[p] # "absent" THEN "FileAlreadyExistsException"
    ELSE IF t[GetParent(p)] \in {"absent", "linkbad"} THEN "NoSuchFileException"
    ELSE IF t[GetParent(p)] = "file" THEN "FileSystemException"
    ELSE "ok"

(***************************************************************************)
(* Files: attribute getters                                                *)
(***************************************************************************)
ReadAttributesWithType(t, p, options) == ProviderReadAttributes(t, p, options)

IsSymbolicLink(t, p) ==
    LET r == ReadAttributesWithType(t, p, <<"NOFOLLOW_LINKS">>) IN
    IF r.kind = "return" THEN Return(r.value.isSymbolicLink) ELSE Return(FALSE)

\* isDirectory without its catch
IsDirectoryPropagating(t, p, options) ==
    LET r == ReadAttributesWithType(t, p, options) IN
    IF r.kind = "return" THEN Return(r.value.isDirectory) ELSE r

\* isDirectory reading the attributes of the link's target
IsDirectoryFollowing(t, p, options) ==
    LET r == ReadAttributesWithType(t, p, <<>>) IN
    IF r.kind = "return" THEN Return(r.value.isDirectory) ELSE Return(FALSE)

IsDirectory(t, p, options) ==
    LET r == ReadAttributesWithType(t, p, options) IN
    IF r.kind = "return" THEN Return(r.value.isDirectory) ELSE Return(FALSE)

IsRegularFile(t, p, options) ==
    LET r == ReadAttributesWithType(t, p, options) IN
    IF r.kind = "return" THEN Return(r.value.isRegularFile) ELSE Return(FALSE)

\* the FileTime of an entry is not modelled beyond its being returned
GetLastModifiedTime(t, p, options) ==
    LET r == ReadAttributesWithType(t, p, options) IN
    IF r.kind = "return" THEN Return(TRUE) ELSE r

Size(t, p) ==
    LET r == ReadAttributesWithType(t, p, <<>>) IN
    IF r.kind = "return" THEN Return(r.value.size) ELSE r

(***************************************************************************)
(* Files: existence                                                        *)
(***************************************************************************)
RECURSIVE FollowLinksFrom(_, _, _)
FollowLinksFrom(options, i, followLinks) ==
    IF i > Len(options) THEN Return(followLinks)
    ELSE IF options[i] = "NOFOLLOW_LINKS"
         THEN FollowLinksFrom(options, i + 1, FALSE)
         ELSE IF options[i] = "null"
              THEN Throw("NullPointerException")
              ELSE Throw("Error")

FollowLinks(options) == FollowLinksFrom(options, 1, TRUE)

\* the body of the try block of exists and of notExists
TryAccess(t, p, options) ==
    LET f == FollowLinks(options) IN
    IF f.kind = "throw" THEN f
    ELSE IF f.value
         THEN ProviderCheckAccess(t, p)
         ELSE ReadAttributesWithType(t, p, <<"NOFOLLOW_LINKS">>)

Exists(t, p, options) ==
    LET x == TryAccess(t, p, options) IN
    IF x.kind = "return" THEN Return(TRUE) ELSE Return(FALSE)

\* notExists taking every failure for absence
NotExistsAnyFailure(t, p, options) ==
    LET x == TryAccess(t, p, options) IN
    IF x.kind = "return" THEN Return(FALSE) ELSE Return(TRUE)

NotExists(t, p, options) ==
    LET x == TryAccess(t, p, options) IN
    IF x.kind = "return" THEN Return(FALSE)
    ELSE IF x.exc = "NoSuchFileException" THEN Return(TRUE)
    ELSE Return(FALSE)

(***************************************************************************)
(* Files.createDirectories.  Each provider call is a step of its own, so   *)
(* that the concurrent actor can act between two of them.                  *)
(*   cd.pc   "idle", "create" (about to call createDirectory on cd.cur),   *)
(*           "check" (FileAlreadyExists caught, about to call isDirectory) *)
(*   cd.phase "first" (the attempt on dir itself, line 114) or "walk"      *)
(*           (the descent from the ancestor found, line 156)               *)
(***************************************************************************)
MaxCalls == 2

MaxOther == 2

RootUndetermined == "Unable to determine if root directory exists"

Idle ==
    [pc |-> "idle", dir |-> NoPath, cur |-> NoPath, phase |-> "first",
     todo |-> <<>>, se |-> "", made |-> <<>>, checked |-> <<>>,
     startTree |-> tree, startOther |-> 0]

\* a call that ended: what it was given, how it ended, what it did
Ended(c, r, t) ==
    [dir |-> c.dir, kind |-> r.kind, exc |-> r.exc, msg |-> r.msg,
     cause |-> r.cause, made |-> c.made, checked |-> c.checked,
     startTree |-> c.startTree, endTree |-> t,
     startOther |-> c.startOther, endOther |-> otherActs]

ReturnDir == [kind |-> "return", exc |-> "", msg |-> "", cause |-> ""]

ThrowExc(e, m, cause) == [kind |-> "throw", exc |-> e, msg |-> m, cause |-> cause]

\* dir.toAbsolutePath(): the paths of the model are absolute
ToAbsolutePath(p) == Return(p)

\* lines 121-128 with the assignment to dir left out
WalkStartKeepingDir(dir, abs) ==
    [se |-> IF abs.kind = "throw" /\ abs.exc = "SecurityException"
            THEN abs.exc ELSE "",
     dir |-> dir]

\* lines 121-128: abs is the outcome of dir.toAbsolutePath(); the failure
\* remembered and the path the parent walk of line 129 starts from
WalkStart(dir, abs) ==
    [se |-> IF abs.kind = "throw" /\ abs.exc = "SecurityException"
            THEN abs.exc ELSE "",
     dir |-> IF abs.kind = "return" THEN abs.value ELSE dir]

\* lines 129-140: the nearest ancestor of dir that checkAccess accepts, every
\* failure of checkAccess being taken for "not here"; NoPath when there is none
WalkUp(t, dir) ==
    LET found == {n \in 0..(Len(dir) - 1) :
                     ProviderCheckAccess(t, SubSeq(dir, 1, n)).kind = "return"}
    IN IF found = {} THEN NoPath
       ELSE SubSeq(dir, 1, CHOOSE n \in found : \A m \in found : m <= n)

\* parent.relativize(dir)
Relativize(parent, dir) == SubSeq(dir, Len(parent) + 1, Len(dir))

\* lines 121-155, reached when the first attempt ends with an exception that
\* is not FileAlreadyExists: the call state before the first descent step,
\* or the call's end
AfterFirstAttemptFailed(c, t) ==
    LET start == WalkStart(c.dir, ToAbsolutePath(c.dir))
        se == start.se
        dir == start.dir
        parent == WalkUp(t, dir)
    IN IF parent = NoPath
       THEN [ended |-> TRUE,
             result |-> IF se = ""
                        THEN ThrowExc("FileSystemException", RootUndetermined, "")
                        ELSE ThrowExc(se, "", ""),
             call |-> c]
       ELSE LET names == Relativize(parent, dir) IN
            IF names = <<>>
            THEN [ended |-> TRUE, result |-> ReturnDir, call |-> c]
            ELSE [ended |-> FALSE, result |-> ReturnDir,
                  call |-> [c EXCEPT !.pc = "create", !.phase = "walk",
                                     !.se = se,
                                     !.cur = Append(parent, Head(names)),
                                     !.todo = Tail(names)]]

\* what follows createAndCheckIsDirectory(c.cur) ending with x ("" when it
\* returned): lines 114-120 in the first attempt, lines 154-158 in the descent
AfterCreateAndCheck(c, x, t) ==
    IF c.phase = "first"
    THEN IF x = ""
         THEN [ended |-> TRUE, result |-> ReturnDir, call |-> c]
         ELSE IF x = "FileAlreadyExistsException"
              THEN [ended |-> TRUE, result |-> ThrowExc(x, "", ""), call |-> c]
              ELSE AfterFirstAttemptFailed(c, t)
    ELSE IF x # ""
         THEN [ended |-> TRUE, result |-> ThrowExc(x, "", ""), call |-> c]
         ELSE IF c.todo = <<>>
              THEN [ended |-> TRUE, result |-> ReturnDir, call |-> c]
              ELSE [ended |-> FALSE, result |-> ReturnDir,
                    call |-> [c EXCEPT !.pc = "create",
                                       !.cur = Append(c.cur, Head(c.todo)),
                                       !.todo = Tail(c.todo)]]

\* createAndCheckIsDirectory's catch (lines 164-168): what it re-throws, ""
\* when it swallows x; isDir is Files.isDirectory(dir, NOFOLLOW_LINKS)
Caught(x, isDir) ==
    IF x = "FileAlreadyExistsException" /\ ~isDir THEN x ELSE ""

\* the call moves on after createAndCheckIsDirectory(c.cur) ended with x
Proceed(c, x, t) ==
    LET n == AfterCreateAndCheck(c, x, t) IN
    IF n.ended
    THEN /\ hist' = Append(hist, Ended(n.call, n.result, t))
         /\ cd' = [Idle EXCEPT !.startTree = t]
    ELSE /\ hist' = hist
         /\ cd' = n.call

InitFiles ==
    /\ tree = [p \in Paths |-> IF p = <<>> THEN "dir" ELSE "absent"]
    /\ denyAt \in Paths \cup {NoPath}
    /\ otherActs = 0
    /\ cd = Idle
    /\ hist = <<>>
    /\ ret = [op |-> "none", path |-> NoPath, options |-> <<>>,
              kind |-> "none", value |-> FALSE, exc |-> ""]

\* Files.createDirectories(dir) is called
createDirectories(dir) ==
    /\ cd.pc = "idle"
    /\ Len(hist) < MaxCalls
    /\ cd' = [Idle EXCEPT !.pc = "create", !.dir = dir, !.cur = dir,
                          !.startTree = tree, !.startOther = otherActs]
    /\ UNCHANGED <<tree, denyAt, otherActs, hist, ret, pathRet, regVars, copyVars>>

\* createAndCheckIsDirectory: this.createDirectory(dir, attrs), line 163; an
\* exception that is not FileAlreadyExists leaves the catch without isDirectory
\* being evaluated
createAndCheckIsDirectory_create ==
    /\ cd.pc = "create"
    /\ LET x == ProviderCreateDirectory(tree, cd.cur) IN
       IF x = "ok"
       THEN /\ tree' = [tree EXCEPT ![cd.cur] = "dir"]
            /\ Proceed([cd EXCEPT !.made = Append(cd.made, cd.cur)], "", tree')
       ELSE /\ tree' = tree
            /\ IF x = "FileAlreadyExistsException"
               THEN /\ cd' = [cd EXCEPT !.pc = "check"]
                    /\ hist' = hist
               ELSE Proceed(cd, Caught(x, FALSE), tree)
    /\ UNCHANGED <<denyAt, otherActs, ret, pathRet, regVars, copyVars>>

\* createAndCheckIsDirectory: the isDirectory of line 165, after
\* createDirectory failed with FileAlreadyExists
createAndCheckIsDirectory_isDirectory ==
    /\ cd.pc = "check"
    /\ LET d == IsDirectory(tree, cd.cur, <<"NOFOLLOW_LINKS">>).value
           c == [cd EXCEPT !.checked =
                     Append(cd.checked, [path |-> cd.cur, found |-> tree[cd.cur]])]
       IN Proceed(c, Caught("FileAlreadyExistsException", d), tree)
    /\ UNCHANGED <<tree, denyAt, otherActs, ret, pathRet, regVars, copyVars>>

\* the concurrent actor creates an entry where there is none
otherCreates(p, k) ==
    /\ otherActs < MaxOther
    /\ p # <<>>
    /\ tree[p] = "absent"
    /\ DirLike(tree[GetParent(p)])
    /\ tree' = [tree EXCEPT ![p] = k]
    /\ otherActs' = otherActs + 1
    /\ UNCHANGED <<denyAt, cd, hist, ret, pathRet, regVars, copyVars>>

NextFiles ==
    \/ \E dir \in Paths : createDirectories(dir)
    \/ createAndCheckIsDirectory_create
    \/ createAndCheckIsDirectory_isDirectory
    \/ \E p \in Paths, k \in Kinds \ {"absent"} : otherCreates(p, k)

(***************************************************************************)
(* Calls of the getters and of the existence predicates                    *)
(***************************************************************************)
Called(op, p, options, r) ==
    [op |-> op, path |-> p, options |-> options,
     kind |-> r.kind, value |-> r.value, exc |-> r.exc]

exists(p, options) ==
    /\ ret' = Called("exists", p, options, Exists(tree, p, options))
    /\ UNCHANGED <<backendVars, dirVars, regVars, copyVars, pathRet>>

notExists(p, options) ==
    /\ ret' = Called("notExists", p, options, NotExists(tree, p, options))
    /\ UNCHANGED <<backendVars, dirVars, regVars, copyVars, pathRet>>

isSymbolicLink(p) ==
    /\ ret' = Called("isSymbolicLink", p, <<>>, IsSymbolicLink(tree, p))
    /\ UNCHANGED <<backendVars, dirVars, regVars, copyVars, pathRet>>

isDirectory(p, options) ==
    /\ ret' = Called("isDirectory", p, options, IsDirectory(tree, p, options))
    /\ UNCHANGED <<backendVars, dirVars, regVars, copyVars, pathRet>>

isRegularFile(p, options) ==
    /\ ret' = Called("isRegularFile", p, options, IsRegularFile(tree, p, options))
    /\ UNCHANGED <<backendVars, dirVars, regVars, copyVars, pathRet>>

getLastModifiedTime(p, options) ==
    /\ ret' = Called("getLastModifiedTime", p, options,
                     GetLastModifiedTime(tree, p, options))
    /\ UNCHANGED <<backendVars, dirVars, regVars, copyVars, pathRet>>

size(p) ==
    /\ ret' = Called("size", p, <<>>, Size(tree, p))
    /\ UNCHANGED <<backendVars, dirVars, regVars, copyVars, pathRet>>

NextQueries ==
    \/ \E p \in Paths, o \in OptionArrays : exists(p, o)
    \/ \E p \in Paths, o \in OptionArrays : notExists(p, o)
    \/ \E p \in Paths : isSymbolicLink(p)
    \/ \E p \in Paths, o \in OptionArrays : isDirectory(p, o)
    \/ \E p \in Paths, o \in OptionArrays : isRegularFile(p, o)
    \/ \E p \in Paths, o \in OptionArrays : getLastModifiedTime(p, o)
    \/ \E p \in Paths : size(p)
    \/ \E p \in Paths, k \in Kinds \ {"absent"} : otherCreates(p, k)

(***************************************************************************)
(* Files.copyFromStream and Files.copyToStream.  The path argument names   *)
(* one backend entry; each provider call and each await is a step.         *)
(*   cp.stream  the stream the call opens at the path: "undefined" until   *)
(*              newOutputStream / newInputStream returns, then "writable"  *)
(*              or "readable", then "closed" or "errored"                  *)
(*   cp.pending the exception leaving the try / catch, "" when none        *)

(***************************************************************************)
(* Path.  A path is the filesystem that owns it, its absolute / relative   *)
(* flag and the sequence of its names; the empty path is the relative path *)
(* without names, the root the absolute one.                               *)
(***************************************************************************)
MaxNames == 2

PathNames == {"a", "."}

FileSystemNames == {"default", "other"}

NameSeqs == UNION {[1..n -> PathNames] : n \in 0..MaxNames}

PathObjects == [fs : FileSystemNames, absolute : BOOLEAN, names : NameSeqs]

\* the working directories a provider may have: absolute paths of its own
\* filesystem
WorkingDirectories(fs) == {c \in PathObjects : c.fs = fs /\ c.absolute}

\* how looking up the working directory may fail, "" when it does not
AbsoluteFailures == {"", "SecurityException", "Error"}

IsAbsolute(p) == p.absolute

IsEmptyPath(p) == ~p.absolute /\ p.names = <<>>

\* this.resolve(other)
Resolve(this, other) ==
    IF other.absolute THEN other
    ELSE IF IsEmptyPath(other) THEN this
    ELSE [this EXCEPT !.names = this.names \o other.names]

\* p.toAbsolutePath(), cwd being the working directory of p's provider and
\* failure what looking it up throws
PathToAbsolutePath(p, cwd, failure) ==
    IF p.absolute THEN Return(p)
    ELSE IF failure # "" THEN Throw(failure)
    ELSE Return(Resolve(cwd, p))

NoPathCall ==
    [op |-> "none", p |-> [fs |-> "default", absolute |-> FALSE, names |-> <<>>],
     kind |-> "none", exc |-> "", se |-> "",
     result |-> [fs |-> "default", absolute |-> FALSE, names |-> <<>>]]

InitPath == pathRet = NoPathCall

\* p.toAbsolutePath() is called
toAbsolutePath(p, cwd, failure) ==
    /\ LET abs == PathToAbsolutePath(p, cwd, failure) IN
       pathRet' = [op |-> "toAbsolutePath", p |-> p, kind |-> abs.kind,
                   exc |-> abs.exc, se |-> "",
                   result |-> IF abs.kind = "return" THEN abs.value ELSE p]
    /\ UNCHANGED <<backendVars, dirVars, ret, regVars, copyVars>>

\* lines 121-128 of createDirectories, on any dir: result is the path the
\* parent walk starts from
createDirectories_toAbsolutePath(dir, cwd, failure) ==
    /\ LET abs == PathToAbsolutePath(dir, cwd, failure)
           start == WalkStart(dir, abs)
       IN pathRet' = [op |-> "createDirectories", p |-> dir, kind |-> abs.kind,
                      exc |-> abs.exc, se |-> start.se, result |-> start.dir]
    /\ UNCHANGED <<backendVars, dirVars, ret, regVars, copyVars>>

NextPaths ==
    \/ \E p \in PathObjects, f \in AbsoluteFailures :
          \E cwd \in WorkingDirectories(p.fs) : toAbsolutePath(p, cwd, f)
    \/ \E p \in PathObjects, f \in AbsoluteFailures :
          \E cwd \in WorkingDirectories(p.fs) :
             createDirectories_toAbsolutePath(p, cwd, f)

(***************************************************************************)
MaxChunks == 2

MaxCopyOptions == 2

CopyOptionValues == {"REPLACE_EXISTING", "ATOMIC_MOVE", "null"}

\* options left out by the caller
Undefined == <<"undefined">>

CopyOptionArrays ==
    UNION {[1..n -> CopyOptionValues] : n \in 0..MaxCopyOptions} \cup {Undefined}

\* what a stream carries: chunks, all alike
Datas == UNION {[1..n -> {1}] : n \in 0..MaxChunks}

Absent == [kind |-> "absent", content |-> <<>>]

File(content) == [kind |-> "file", content |-> content]

\* the streams a caller may hand over: none, a usable one, or one that
\* already has a reader or writer
UserInputStreams ==
    {[state |-> "null", data |-> <<>>]}
        \cup [state : {"readable", "locked"}, data : Datas]

UserOutputStreams == [state : {"null", "writable", "locked"}, data : {<<>>}]

IdleCopy ==
    [op |-> "none", pc |-> "idle", options |-> <<>>,
     user |-> [state |-> "null", data |-> <<>>],
     replaceExisting |-> FALSE, se |-> "", stream |-> "undefined",
     opened |-> "", piped |-> "", pending |-> "", events |-> <<>>,
     startEntry |-> Absent, endEntry |-> Absent, moved |-> 0,
     kind |-> "none", exc |-> "", msg |-> <<>>]

\* the option loop passing over every option it does not know
RECURSIVE ValidateFromSkipping(_, _, _)
ValidateFromSkipping(options, i, replaceExisting) ==
    IF i > Len(options)
    THEN [kind |-> "return", value |-> replaceExisting, exc |-> "", msg |-> <<>>]
    ELSE ValidateFromSkipping(options, i + 1,
                              replaceExisting \/ options[i] = "REPLACE_EXISTING")

\* lines 551-562: the option loop
RECURSIVE ValidateFrom(_, _, _)
ValidateFrom(options, i, replaceExisting) ==
    IF i > Len(options)
    THEN [kind |-> "return", value |-> replaceExisting, exc |-> "", msg |-> <<>>]
    ELSE IF options[i] = "REPLACE_EXISTING"
         THEN ValidateFrom(options, i + 1, TRUE)
         ELSE IF options[i] = "null"
              THEN [kind |-> "throw", value |-> FALSE,
                    exc |-> "NullPointerException",
                    msg |-> <<"options contains 'null'">>]
              ELSE [kind |-> "throw", value |-> FALSE,
                    exc |-> "UnsupportedOperationException",
                    msg |-> <<options[i], " not supported">>]

\* for (let opt of options): options that were left out cannot be iterated
ValidateOptions(options) ==
    IF options = Undefined
    THEN [kind |-> "throw", value |-> FALSE, exc |-> "TypeError", msg |-> <<>>]
    ELSE ValidateFrom(options, 1, FALSE)

\* provider.deleteIfExists(target): "" when it returns
ProviderDeleteIfExists(e, denied) ==
    IF denied THEN "SecurityException" ELSE ""

\* provider.newOutputStream(target, [CREATE_NEW, WRITE]): "" when it returns
ProviderNewOutputStream(e, denied) ==
    IF e.kind # "absent" THEN "FileAlreadyExistsException"
    ELSE IF denied THEN "SecurityException"
    ELSE ""

\* provider.newInputStream(source): "" when it returns
ProviderNewInputStream(e, denied) ==
    IF e.kind = "absent" THEN "NoSuchFileException"
    ELSE IF denied THEN "SecurityException"
    ELSE ""

\* lines 566-571: the catch around deleteIfExists, the remembered failure
DeleteCaught(x, se) == IF x = "SecurityException" THEN x ELSE se

\* lines 578-585: what copyFromStream's catch throws for x, "" when nothing
CopyCaught(x, se) ==
    IF x = "FileAlreadyExistsException"
    THEN (IF se # "" THEN se ELSE x)
    ELSE ""

\* outputStream.close(), line 587: "" when it resolves
WritableClose(stream) ==
    IF stream = "writable" THEN "" ELSE "TypeError"

\* inputStream.cancel(), line 600: "" when it resolves
ReadableCancel(stream) ==
    IF stream = "undefined" THEN "TypeError"
    ELSE IF stream = "errored" THEN "IOException"
    ELSE ""

\* a finally block: what it throws replaces what was on its way out
Finally(pending, thrown) == IF thrown # "" THEN thrown ELSE pending

\* source.pipeTo(dest) with both streams usable: how it may end after moving
\* k of n chunks
PipeEndings(n) ==
    {[how |-> "complete", k |-> n]}
        \cup [how : {"sourceError", "destError"}, k : 0..n]

EndCopy(c, exc) ==
    /\ cpRet' = [c EXCEPT !.pc = "ended",
                          !.kind = IF exc = "" THEN "return" ELSE "throw",
                          !.exc = exc,
                          !.endEntry = entry]
    /\ cp' = IdleCopy

InitCopy ==
    /\ entry \in {Absent, File(<<0>>)}
    /\ entryDenied \in BOOLEAN
    /\ cp = IdleCopy
    /\ cpRet = IdleCopy

\* Files.copyFromStream(inputStream, target, options): lines 547-564
copyFromStream(inputStream, options) ==
    /\ cp.pc = "idle"
    /\ LET c == [IdleCopy EXCEPT !.op = "copyFromStream", !.options = options,
                                 !.user = inputStream, !.startEntry = entry]
           v == ValidateOptions(options)
       IN IF inputStream.state = "null"
          THEN EndCopy(c, "NullPointerException")
          ELSE IF v.kind = "throw"
               THEN EndCopy([c EXCEPT !.msg = v.msg], v.exc)
               ELSE /\ cp' = [c EXCEPT !.replaceExisting = v.value,
                                       !.pc = IF v.value THEN "delete" ELSE "open"]
                    /\ cpRet' = IdleCopy
    /\ UNCHANGED <<entry, entryDenied, backendVars, dirVars, ret, pathRet, regVars>>

\* lines 564-572: this.deleteIfExists(target)
copyFromStream_deleteIfExists ==
    /\ cp.op = "copyFromStream" /\ cp.pc = "delete"
    /\ LET x == ProviderDeleteIfExists(entry, entryDenied) IN
       /\ entry' = IF x = "" THEN Absent ELSE entry
       /\ cp' = [cp EXCEPT !.pc = "open", !.se = DeleteCaught(x, cp.se),
                           !.events = Append(cp.events, "delete")]
    /\ UNCHANGED <<entryDenied, cpRet, backendVars, dirVars, ret, pathRet, regVars>>

\* line 575: this.newOutputStream(target, [CREATE_NEW, WRITE])
copyFromStream_newOutputStream ==
    /\ cp.op = "copyFromStream" /\ cp.pc = "open"
    /\ LET x == ProviderNewOutputStream(entry, entryDenied) IN
       IF x = ""
       THEN /\ entry' = File(<<>>)
            /\ cp' = [cp EXCEPT !.pc = "pipe", !.stream = "writable",
                                !.opened = "ok",
                                !.events = Append(cp.events, "open")]
       ELSE /\ entry' = entry
            /\ cp' = [cp EXCEPT !.pc = "finally", !.opened = x,
                                !.pending = CopyCaught(x, cp.se)]
    /\ UNCHANGED <<entryDenied, cpRet, backendVars, dirVars, ret, pathRet, regVars>>

\* line 576: await inputStream.pipeTo(outputStream)
copyFromStream_pipeTo ==
    /\ cp.op = "copyFromStream" /\ cp.pc = "pipe"
    /\ IF cp.user.state = "locked"
       THEN /\ entry' = entry
            /\ cp' = [cp EXCEPT !.pc = "finally", !.piped = "TypeError",
                                !.pending = CopyCaught("TypeError", cp.se)]
       ELSE \E e \in PipeEndings(Len(cp.user.data)) :
            LET x == IF e.how = "complete" THEN "" ELSE "IOException" IN
            /\ entry' = [entry EXCEPT !.content = SubSeq(cp.user.data, 1, e.k)]
            /\ cp' = [cp EXCEPT
                        !.pc = "finally",
                        !.moved = e.k,
                        !.piped = IF x = "" THEN "ok" ELSE x,
                        !.stream = IF e.how = "complete" THEN "closed" ELSE "errored",
                        !.events = Append(cp.events,
                                     IF e.how = "complete" THEN "pipeTo closes"
                                     ELSE "pipeTo aborts"),
                        !.pending = CopyCaught(x, cp.se)]
    /\ UNCHANGED <<entryDenied, cpRet, backendVars, dirVars, ret, pathRet, regVars>>

\* lines 586-588: finally { await outputStream.close() }
copyFromStream_finally ==
    /\ cp.op = "copyFromStream" /\ cp.pc = "finally"
    /\ LET x == WritableClose(cp.stream)
           c == [cp EXCEPT
                    !.events = Append(cp.events,
                                 IF cp.stream = "undefined" THEN "close of undefined"
                                 ELSE IF cp.stream = "writable" THEN "close"
                                 ELSE "close again"),
                    !.stream = IF cp.stream = "writable" THEN "closed" ELSE cp.stream]
       IN EndCopy(c, Finally(cp.pending, x))
    /\ UNCHANGED <<entry, entryDenied, backendVars, dirVars, ret, pathRet, regVars>>

\* Files.copyToStream(source, outputStream): lines 591-595
copyToStream(outputStream) ==
    /\ cp.pc = "idle"
    /\ LET c == [IdleCopy EXCEPT !.op = "copyToStream", !.user = outputStream,
                                 !.startEntry = entry]
       IN IF outputStream.state = "null"
          THEN EndCopy(c, "NullPointerException")
          ELSE /\ cp' = [c EXCEPT !.pc = "open"]
               /\ cpRet' = IdleCopy
    /\ UNCHANGED <<entry, entryDenied, backendVars, dirVars, ret, pathRet, regVars>>

\* line 597: this.newInputStream(source)
copyToStream_newInputStream ==
    /\ cp.op = "copyToStream" /\ cp.pc = "open"
    /\ LET x == ProviderNewInputStream(entry, entryDenied) IN
       IF x = ""
       THEN cp' = [cp EXCEPT !.pc = "pipe", !.stream = "readable",
                             !.opened = "ok",
                             !.user = [cp.user EXCEPT !.data = <<>>],
                             !.events = Append(cp.events, "open")]
       ELSE cp' = [cp EXCEPT !.pc = "finally", !.opened = x, !.pending = x]
    /\ UNCHANGED <<entry, entryDenied, cpRet, backendVars, dirVars, ret, pathRet, regVars>>

\* line 598: await inputStream.pipeTo(outputStream)
copyToStream_pipeTo ==
    /\ cp.op = "copyToStream" /\ cp.pc = "pipe"
    /\ IF cp.user.state = "locked"
       THEN cp' = [cp EXCEPT !.pc = "finally", !.piped = "TypeError",
                             !.pending = "TypeError"]
       ELSE \E e \in PipeEndings(Len(entry.content)) :
            LET x == IF e.how = "complete" THEN "" ELSE "IOException" IN
            cp' = [cp EXCEPT
                     !.pc = "finally",
                     !.moved = e.k,
                     !.piped = IF x = "" THEN "ok" ELSE x,
                     !.user = [state |-> IF e.how = "complete" THEN "closed"
                                         ELSE "errored",
                               data |-> SubSeq(entry.content, 1, e.k)],
                     !.stream = IF e.how = "sourceError" THEN "errored" ELSE "closed",
                     !.events = Append(cp.events,
                                  IF e.how = "complete" THEN "source ends"
                                  ELSE IF e.how = "destError" THEN "pipeTo cancels"
                                  ELSE "source errors"),
                     !.pending = x]
    /\ UNCHANGED <<entry, entryDenied, cpRet, backendVars, dirVars, ret, pathRet, regVars>>

\* lines 599-601: finally { await inputStream.cancel() }
copyToStream_finally ==
    /\ cp.op = "copyToStream" /\ cp.pc = "finally"
    /\ LET x == ReadableCancel(cp.stream)
           c == [cp EXCEPT
                    !.events = Append(cp.events,
                                 IF cp.stream = "undefined" THEN "cancel of undefined"
                                 ELSE IF cp.stream = "readable" THEN "cancel"
                                 ELSE "cancel again"),
                    !.stream = IF cp.stream = "readable" THEN "closed" ELSE cp.stream]
       IN EndCopy(c, Finally(cp.pending, x))
    /\ UNCHANGED <<entry, entryDenied, backendVars, dirVars, ret, pathRet, regVars>>

\* the concurrent actor creates the entry where there is none
otherCreatesEntry ==
    /\ otherActs < MaxOther
    /\ entry.kind = "absent"
    /\ entry' = File(<<0>>)
    /\ otherActs' = otherActs + 1
    /\ UNCHANGED <<tree, denyAt, entryDenied, cp, cpRet, dirVars, ret, pathRet, regVars>>

NextStreams ==
    \/ \E i \in UserInputStreams, o \in CopyOptionArrays : copyFromStream(i, o)
    \/ copyFromStream_deleteIfExists
    \/ copyFromStream_newOutputStream
    \/ copyFromStream_pipeTo
    \/ copyFromStream_finally
    \/ \E o \in UserOutputStreams : copyToStream(o)
    \/ copyToStream_newInputStream
    \/ copyToStream_pipeTo
    \/ copyToStream_finally
    \/ otherCreatesEntry

WithCall(op, url, r) ==
    [op |-> op, url |-> url, kind |-> r.kind, value |-> r.value,
     exc |-> r.exc, msg |-> r.msg, consulted |-> r.consulted]

InitRegistry ==
    /\ installedProviders = <<>>
    /\ regRet = NoCall

\* a provider is appended to the registry (the registry is append-only)
installProvider(p) ==
    /\ Len(installedProviders) < MaxProviders
    /\ installedProviders' = Append(installedProviders, p)
    /\ regRet' = NoCall
    /\ UNCHANGED <<backendVars, dirVars, ret, pathRet, copyVars>>

getFileSystem(url) ==
    /\ regRet' = WithCall("getFileSystem", url,
                          GetFileSystem(installedProviders, url))
    /\ UNCHANGED <<installedProviders, backendVars, dirVars, ret, pathRet, copyVars>>

newFileSystem(url) ==
    /\ regRet' = WithCall("newFileSystem", url,
                          NewFileSystem(installedProviders, url))
    /\ UNCHANGED <<installedProviders, backendVars, dirVars, ret, pathRet, copyVars>>

NextRegistry ==
    \/ \E p \in Providers : installProvider(p)
    \/ \E url \in SchemeStrings : getFileSystem(url)
    \/ \E url \in SchemeStrings : newFileSystem(url)

Init == InitRegistry /\ InitFiles /\ InitCopy /\ InitPath

\* the part of the backend a specification does not exercise is held still
InitQuietBackend == Init /\ denyAt = NoPath /\ entry = Absent /\ ~entryDenied

InitNoEntry == Init /\ entry = Absent /\ ~entryDenied

InitNothingDenied == Init /\ denyAt = NoPath

SpecRegistry == InitQuietBackend /\ [][NextRegistry]_vars

SpecFiles == InitNoEntry /\ [][NextFiles]_vars

SpecQueries == InitNoEntry /\ [][NextQueries]_vars

SpecStreams == InitNothingDenied /\ [][NextStreams]_vars

SpecPaths == InitQuietBackend /\ [][NextPaths]_vars

(***************************************************************************)
(* Claims about the registry                                               *)
(***************************************************************************)
Indices(provs) == 1..Len(provs)

Min(S) == CHOOSE x \in S : \A y \in S : x <= y

\* the providers whose scheme equals the URL's scheme, letter case ignored
\* on both sides
SameSchemeIgnoringCase(provs, url) ==
    {i \in Indices(provs) : ToLowerCase(provs[i].scheme) = ToLowerCase(url)}

\* C1: getFileSystem(url) returns the filesystem of the first installed
\* provider whose scheme equals the URL's scheme when letter case is ignored
\* on both the URL side and the provider side, and consults no other
\* provider; when no installed provider has that scheme it fails with
\* ProviderNotFound and the message names the scheme.
C1_FirstMatchIgnoringCase ==
    regRet.op = "getFileSystem" =>
        LET ms == SameSchemeIgnoringCase(installedProviders, regRet.url) IN
        IF ms # {}
        THEN /\ regRet.kind = "return"
             /\ regRet.value = Min(ms)
             /\ regRet.consulted = <<Min(ms)>>
        ELSE /\ regRet.kind = "throw"
             /\ regRet.exc = "ProviderNotFoundException"
             /\ Contains(regRet.msg, ToLowerCase(regRet.url))
             /\ regRet.consulted = <<>>

\* the providers newFileSystem takes to match, in registry order: those whose
\* getScheme() is the URL's lower-cased protocol
RECURSIVE MatchingFrom(_, _, _)
MatchingFrom(provs, url, i) ==
    IF i > Len(provs) THEN <<>>
    ELSE (IF provs[i].scheme = ToLowerCase(url) THEN <<i>> ELSE <<>>)
            \o MatchingFrom(provs, url, i + 1)

\* the position in m of the first provider that does not answer
\* UnsupportedOperation, 0 when every one does
FirstDecisive(provs, m) ==
    LET ds == {k \in 1..Len(m) :
                  provs[m[k]].newFs # "UnsupportedOperationException"}
    IN IF ds = {} THEN 0 ELSE Min(ds)

\* C6: newFileSystem(uri, env) asks the matching providers in registry order;
\* UnsupportedOperation moves on to the next matching provider; the first
\* success is returned and no later provider is asked; any other failure
\* propagates at once; when every matching provider answers
\* UnsupportedOperation, or none matches, it fails with ProviderNotFound
\* naming the scheme.
C6_NewFileSystemScan ==
    regRet.op = "newFileSystem" =>
        LET m == MatchingFrom(installedProviders, regRet.url, 1)
            k == FirstDecisive(installedProviders, m)
        IN IF k = 0
           THEN /\ regRet.kind = "throw"
                /\ regRet.exc = "ProviderNotFoundException"
                /\ Contains(regRet.msg, ToLowerCase(regRet.url))
                /\ regRet.consulted = m
           ELSE /\ regRet.consulted = SubSeq(m, 1, k)
                /\ IF installedProviders[m[k]].newFs = "ok"
                   THEN regRet.kind = "return" /\ regRet.value = m[k]
                   ELSE /\ regRet.kind = "throw"
                        /\ regRet.exc = installedProviders[m[k]].newFs

\* a provider answered UnsupportedOperation and a later one of the same
\* scheme created the filesystem
C6_Witness ==
    /\ regRet.op = "newFileSystem"
    /\ regRet.kind = "return"
    /\ Len(regRet.consulted) >= 2
    /\ regRet.value < Len(installedProviders)

(***************************************************************************)
(* Claims about the existence predicates and the attribute getters          *)
(***************************************************************************)
\* an array of link options proper: no null in it
LinkOptions(o) == \A i \in DOMAIN o : o[i] = "NOFOLLOW_LINKS"

\* the provider's existence check for a link-option set: the access check
\* that follows links, or the attribute read that does not
ExistenceCheck(t, p, o) ==
    IF o = <<>> THEN ProviderCheckAccess(t, p)
    ELSE ProviderReadAttributes(t, p, <<"NOFOLLOW_LINKS">>)

\* C4: against the same backend state, for every path and link-option set:
\* exists returns true exactly when the provider's check succeeds, notExists
\* returns true exactly when it fails with NoSuchFile, the two are never both
\* true, they are both false exactly when the check fails with another
\* failure, and neither throws.
C4_ExistsNotExists ==
    \A p \in Paths, o \in OptionArrays :
        LET e == Exists(tree, p, o)
            n == NotExists(tree, p, o)
            c == ExistenceCheck(tree, p, o)
        IN /\ e.kind = "return"
           /\ n.kind = "return"
           /\ ~(e.value /\ n.value)
           /\ LinkOptions(o) =>
                /\ e.value <=> c.kind = "return"
                /\ n.value <=> (c.kind = "throw" /\ c.exc = "NoSuchFileException")
                /\ (~e.value /\ ~n.value)
                      <=> (c.kind = "throw" /\ c.exc # "NoSuchFileException")

\* notExists was called on a path whose status cannot be determined, and
\* exists is false of it too
C4_Witness ==
    /\ ret.op = "notExists"
    /\ LinkOptions(ret.options)
    /\ ret.kind = "return" /\ ret.value = FALSE
    /\ Exists(tree, ret.path, ret.options).value = FALSE
    /\ ExistenceCheck(tree, ret.path, ret.options).exc = "SecurityException"

\* C7 as stated: none of size, getLastModifiedTime, isDirectory,
\* isRegularFile and isSymbolicLink propagates a failure of the provider's
\* readAttributesWithType; each returns normally, the predicates with false.
C7_NoGetterPropagates ==
    \A p \in Paths, o \in OptionArrays :
        /\ Size(tree, p).kind = "return"
        /\ GetLastModifiedTime(tree, p, o).kind = "return"
        /\ IsDirectory(tree, p, o).kind = "return"
        /\ IsRegularFile(tree, p, o).kind = "return"
        /\ IsSymbolicLink(tree, p).kind = "return"

\* C7 amended: isDirectory, isRegularFile and isSymbolicLink never propagate a
\* failure of the provider's readAttributesWithType and return false on it;
\* size and getLastModifiedTime fail with the provider's failure, unchanged.
C7_PredicatesSwallowGettersPropagate ==
    \A p \in Paths, o \in OptionArrays :
        LET r == ProviderReadAttributes(tree, p, o)
            rf == ProviderReadAttributes(tree, p, <<>>)
            rn == ProviderReadAttributes(tree, p, <<"NOFOLLOW_LINKS">>)
        IN /\ IsDirectory(tree, p, o).kind = "return"
           /\ IsRegularFile(tree, p, o).kind = "return"
           /\ IsSymbolicLink(tree, p).kind = "return"
           /\ r.kind = "throw" =>
                /\ IsDirectory(tree, p, o).value = FALSE
                /\ IsRegularFile(tree, p, o).value = FALSE
                /\ GetLastModifiedTime(tree, p, o) = Throw(r.exc)
           /\ r.kind = "return" => GetLastModifiedTime(tree, p, o).kind = "return"
           /\ rn.kind = "throw" => IsSymbolicLink(tree, p).value = FALSE
           /\ rf.kind = "throw" => Size(tree, p) = Throw(rf.exc)
           /\ rf.kind = "return" => Size(tree, p).kind = "return"

\* size was called on a path whose attributes the provider could not read,
\* and failed with the provider's failure
C7_Witness ==
    /\ ret.op = "size"
    /\ ret.kind = "throw"
    /\ ProviderReadAttributes(tree, ret.path, <<>>).kind = "throw"
    /\ ret.exc = ProviderReadAttributes(tree, ret.path, <<>>).exc

(***************************************************************************)
(* Claims about Files.createDirectories                                    *)
(***************************************************************************)
Calls == 1..Len(hist)

\* the strict ancestors of a path, the root included
Ancestors(p) == {SubSeq(p, 1, n) : n \in 0..(Len(p) - 1)}

\* C2: createDirectories(dir) fails with FileAlreadyExists whenever the
\* immediate parent of dir already exists as a regular file; the call never
\* returns normally and creates nothing.
C2_ParentIsFileFails ==
    \A i \in Calls :
        LET h == hist[i] IN
        (Len(h.dir) >= 1 /\ h.startTree[GetParent(h.dir)] = "file") =>
            /\ h.kind = "throw"
            /\ h.exc = "FileAlreadyExistsException"
            /\ h.made = <<>>

\* C5: createDirectories is idempotent: when a call on dir succeeds, a second
\* call on the same dir, with nothing done to the tree in between, succeeds
\* too and leaves the tree as the first left it, with a directory at dir.
C5_Idempotent ==
    \A i \in Calls :
        (/\ i + 1 \in Calls
         /\ hist[i].dir = hist[i + 1].dir
         /\ hist[i + 1].endOther = hist[i].startOther
         /\ hist[i].kind = "return") =>
            /\ hist[i + 1].kind = "return"
            /\ hist[i + 1].endTree = hist[i].endTree
            /\ hist[i + 1].endTree[hist[i].dir] = "dir"

\* C9: when creating a segment fails with FileAlreadyExists, whatever the
\* concurrent actor created meanwhile, the failure is swallowed and the call
\* goes on if and only if the entry then present at the segment is itself a
\* directory (a link to a directory is not); otherwise the call fails with
\* that FileAlreadyExists.
C9_RaceToleratedIffDirectory ==
    \A i \in Calls :
        LET h == hist[i] IN
        \A j \in DOMAIN h.checked :
            IF h.checked[j].found = "dir"
            THEN j < Len(h.checked) \/ h.kind = "return"
            ELSE /\ j = Len(h.checked)
                 /\ h.kind = "throw"
                 /\ h.exc = "FileAlreadyExistsException"

\* the concurrent actor created the directory after the call began, the
\* call's createDirectory failed with FileAlreadyExists and the call returned
C9_Witness ==
    \E i \in Calls :
        LET h == hist[i] IN
        /\ h.startTree[h.dir] = "absent"
        /\ h.endOther > h.startOther
        /\ Len(h.checked) = 1
        /\ h.checked[1].found = "dir"
        /\ h.kind = "return"
        /\ h.made = <<>>

\* C10: when no ancestor of dir, up to the root, passes the access check,
\* createDirectories(dir) fails with a FileSystemException saying that the
\* root directory's existence could not be determined, with any security
\* failure seen earlier as its cause, and creates no directory.
C10_NoAccessibleAncestorFails ==
    \A i \in Calls :
        LET h == hist[i] IN
        (/\ Len(h.dir) >= 1
         /\ \A q \in Ancestors(h.dir) :
                /\ ProviderCheckAccess(h.startTree, q).kind = "throw"
                /\ ProviderCheckAccess(h.endTree, q).kind = "throw") =>
            /\ h.kind = "throw"
            /\ h.exc = "FileSystemException"
            /\ h.msg = RootUndetermined
            /\ h.made = <<>>

\* the descent of lines 152-158 is never entered: the first attempt either
\* returns or throws FileAlreadyExists
WalkNeverEntered == cd.phase = "first"

\* C14: without concurrent actors, whenever createDirectories returns normally
\* dir and every ancestor of dir are directories in the backend, and the
\* segments it made were made parent before child.
C14_ReturnsOnlyWithDirectories ==
    \A i \in Calls :
        (hist[i].kind = "return" /\ hist[i].endOther = 0) =>
            /\ \A q \in Ancestors(hist[i].dir) \cup {hist[i].dir} :
                   hist[i].endTree[q] = "dir"
            /\ \A j, k \in DOMAIN hist[i].made :
                   j < k => /\ IsPrefix(hist[i].made[j], hist[i].made[k])
                            /\ hist[i].made[j] # hist[i].made[k]

(***************************************************************************)
(* Claims about the stream copies                                          *)
(***************************************************************************)
\* C3: when opening the target with create-new + write hits an existing
\* target, copyFromStream fails with the Security failure remembered from the
\* REPLACE_EXISTING pre-delete if there was one, and otherwise with the
\* FileAlreadyExists conflict; without REPLACE_EXISTING the target's content
\* is left unchanged.
C3_ConflictSurfaces ==
    (/\ cpRet.pc = "ended"
     /\ cpRet.op = "copyFromStream"
     /\ cpRet.opened = "FileAlreadyExistsException") =>
        /\ cpRet.kind = "throw"
        /\ cpRet.exc = IF cpRet.se # "" THEN cpRet.se
                       ELSE "FileAlreadyExistsException"
        /\ ~cpRet.replaceExisting => entry = cpRet.startEntry

\* what releases the stream a call opened, and what is a release of a stream
\* that was never opened or is closed already
Releases == {"close", "cancel", "pipeTo closes", "pipeTo aborts", "pipeTo cancels"}

BadReleases ==
    {"close of undefined", "cancel of undefined", "close again", "cancel again"}

Count(ev, S) == Cardinality({i \in DOMAIN ev : ev[i] \in S})

\* C8: in copyFromStream and copyToStream the stream the call opened is
\* released exactly once before the call ends, on every exit path, and no
\* exit path releases a stream that was never opened or was already closed.
C8_ReleasedExactlyOnce ==
    cpRet.pc = "ended" =>
        /\ Count(cpRet.events, BadReleases) = 0
        /\ IF Count(cpRet.events, {"open"}) = 1
           THEN /\ cpRet.stream \in {"closed", "errored"}
                /\ Count(cpRet.events, Releases) = 1
           ELSE /\ cpRet.stream = "undefined"
                /\ Count(cpRet.events, Releases) = 0

\* the first option of the array that is not REPLACE_EXISTING, 0 when every
\* option is
FirstOther(options) ==
    LET other == {i \in DOMAIN options : options[i] # "REPLACE_EXISTING"}
    IN IF other = {} THEN 0 ELSE Min(other)

\* a call of copyFromStream on a stream, with an option array that holds an
\* option other than REPLACE_EXISTING, has ended
EndedWithOtherOption ==
    /\ cpRet.pc = "ended"
    /\ cpRet.op = "copyFromStream"
    /\ cpRet.user.state # "null"
    /\ cpRet.options # Undefined
    /\ FirstOther(cpRet.options) # 0

\* C11: copyFromStream validates the whole option array before it touches the
\* target: with an option other than REPLACE_EXISTING at any position the call
\* fails with UnsupportedOperation naming that option, or with a null-argument
\* error when the option is null, the target is neither deleted nor opened and
\* is left as it was, and nothing is read from the input stream.
C11_OptionsValidatedFirst ==
    EndedWithOtherOption =>
        LET opt == cpRet.options[FirstOther(cpRet.options)] IN
        /\ cpRet.kind = "throw"
        /\ IF opt = "null"
           THEN cpRet.exc = "NullPointerException"
           ELSE /\ cpRet.exc = "UnsupportedOperationException"
                /\ cpRet.msg # <<>>
                /\ Head(cpRet.msg) = opt
        /\ cpRet.events = <<>>
        /\ cpRet.opened = ""
        /\ cpRet.endEntry = cpRet.startEntry
        /\ cpRet.moved = 0

\* a copy onto an existing target with REPLACE_EXISTING followed by an
\* unsupported option has ended
C11_Witness ==
    /\ EndedWithOtherOption
    /\ cpRet.options = <<"REPLACE_EXISTING", "ATOMIC_MOVE">>
    /\ cpRet.startEntry.kind = "file"
    /\ cpRet.exc = "UnsupportedOperationException"

\* the failure a stream copy met first: opening the stream at the path, or
\* else piping; "" when neither failed
PrimaryFailure(c) ==
    IF c.opened \notin {"", "ok"} THEN c.opened
    ELSE IF c.piped \notin {"", "ok"} THEN c.piped
    ELSE ""

\* the failure the caller is to see: the primary one, or for a create-new
\* conflict the Security failure remembered from the pre-delete (C3)
ExpectedFailure(c) ==
    IF /\ c.op = "copyFromStream"
       /\ PrimaryFailure(c) = "FileAlreadyExistsException"
       /\ c.se # ""
    THEN c.se
    ELSE PrimaryFailure(c)

\* C13: copyFromStream and copyToStream propagate the primary failure
\* unchanged: when opening the stream at the path fails, or piping fails
\* partway, the call fails with that same failure; it never returns normally
\* after a failed transfer, and a failure of the clean-up never replaces the
\* primary failure.
C13_PrimaryFailurePropagates ==
    (cpRet.pc = "ended" /\ PrimaryFailure(cpRet) # "") =>
        /\ cpRet.kind = "throw"
        /\ cpRet.exc = ExpectedFailure(cpRet)

====
